---- MODULE Spec2Model ----
(* A state-machine model of passgen.c: option parsing and validation in    *)
(* main, generate_password (guaranteed slots, fill loop, shuffle,          *)
(* terminator) and shuffle_string, one action per statement group.         *)
EXTENDS Integers, Sequences, FiniteSets, Bags, TLC

(* ---------------------------------------------------------------- *)
(* Bounds of the exploration                                          *)
(* ---------------------------------------------------------------- *)
\* most options on a command line
MaxArgs == 2
\* -l values tried: MIN_LENGTH-1 .. MaxLenArg, plus the two at the upper limit
MaxLenArg == 4
\* -c values tried: 0 .. MaxCountArg, plus the one above the upper limit
MaxCountArg == 2
\* seeds installed by srand are 0 .. MaxSeed
MaxSeed == 1
\* the seeded generator of a whole program run returns values in 0 .. RandMod-1
RandMod == 61
\* a direct call draws every rand() value freely from 0 .. RandMax
RandMax == 2
\* lengths of the direct calls of generate_password: 0 .. MaxGenLen
MaxGenLen == 4
\* lengths of the direct calls of shuffle_string: 0 .. MaxShuffleLen
MaxShuffleLen == 4

(* ---------------------------------------------------------------- *)
(* Program constants                                                  *)
(* ---------------------------------------------------------------- *)
UPPERCASE == <<"A","B","C","D","E","F","G","H","J","K","L","M","N","P","Q","R","S","T","U","V","W","X","Y","Z">>
LOWERCASE == <<"a","b","c","d","e","f","g","h","i","j","k","m","n","p","q","r","s","t","u","v","w","x","y","z">>
NUMBERS == <<"2","3","4","5","6","7","8","9">>
SPECIAL == <<"!","@","#","$","%","^","&","*","(",")","_","+","-","=","[","]","{","}","|",";",":",",",".","<",">","?">>

DEFAULT_LENGTH == 12
DEFAULT_COUNT == 1
MIN_LENGTH == 3
MAX_LENGTH == 128
MIN_COUNT == 1
MAX_COUNT == 100
MIN_SPECIAL_LENGTH == 4
BUFFER_SIZE == 129

\* the byte '\0'
NUL == "NUL"

ERR_LEN_MIN == "Error: Password length must be at least 3"
ERR_LEN_MAX == "Error: Password length cannot exceed 128"
ERR_COUNT_MIN == "Error: Count must be at least 1"
ERR_COUNT_MAX == "Error: Count cannot exceed 100"
ERR_SPECIAL == "Error: Password length must be at least 4 when using special characters"

(* ---------------------------------------------------------------- *)
(* Helpers                                                            *)
(* ---------------------------------------------------------------- *)
Range(f) == {f[x] : x \in DOMAIN f}

DigitChars == <<"0","1","2","3","4","5","6","7","8","9">>

\* the decimal text of a natural number, as typed on the command line
RECURSIVE ToDigits(_)
ToDigits(n) ==
    IF n < 10 THEN <<DigitChars[n + 1]>>
    ELSE Append(ToDigits(n \div 10), DigitChars[(n % 10) + 1])

DigitVal(c) == (CHOOSE d \in 1..10 : DigitChars[d] = c) - 1

\* atoi's digit loop: accumulate decimal digits, stop at the first other char
RECURSIVE AtoiDigits(_, _)
AtoiDigits(s, acc) ==
    IF s = <<>> \/ Head(s) \notin Range(DigitChars) THEN acc
    ELSE AtoiDigits(Tail(s), acc * 10 + DigitVal(Head(s)))

\* atoi: optional sign, then digits; text without a leading number gives 0
Atoi(s) ==
    IF s = <<>> THEN 0
    ELSE IF Head(s) = "-" THEN 0 - AtoiDigits(Tail(s), 0)
    ELSE IF Head(s) = "+" THEN AtoiDigits(Tail(s), 0)
    ELSE AtoiDigits(s, 0)

\* store one byte of the buffer; the domain of the buffer is the set of
\* bytes that hold a defined value
Put(buf, idx, ch) ==
    [k \in (DOMAIN buf) \cup {idx} |-> IF k = idx THEN ch ELSE buf[k]]

\* a byte that was never stored to holds an indeterminate value
INDETERMINATE == "?"

\* load one byte of the buffer
Get(buf, idx) == IF idx \in DOMAIN buf THEN buf[idx] ELSE INDETERMINATE

\* a swap that forgets the temporary: str[i] = str[j]; str[j] = str[i]
Swap_notemp(buf, a, b) ==
    [k \in (DOMAIN buf) \cup {a, b} |-> IF k = a THEN Get(buf, b) ELSE Get(buf, k)]

\* str[i] <-> str[j] (lines 35-37)
Swap(buf, a, b) ==
    [k \in (DOMAIN buf) \cup {a, b} |->
        IF k = a THEN Get(buf, b) ELSE IF k = b THEN Get(buf, a) ELSE Get(buf, k)]

\* the C string that starts at byte 0 of the buffer: the bytes before the
\* first '\0'
CStr(buf) ==
    LET nuls == {k \in DOMAIN buf : buf[k] = NUL}
        end == CHOOSE k \in nuls : \A m \in nuls : k <= m
    IN [k \in 1..end |-> buf[k - 1]]

\* get_random_char with the value r returned by rand()
get_random_char(charset, r) == charset[(r % Len(charset)) + 1]

\* a class draw that ignores include_special
charset_choice_of_always4(special, r) == r % 4

\* rand() % 4 or rand() % 3 (lines 57-61)
charset_choice_of(special, r) == IF special # 0 THEN r % 4 ELSE r % 3

\* the switch of lines 63-76
charset_of(choice) ==
    CASE choice = 0 -> UPPERCASE
      [] choice = 1 -> LOWERCASE
      [] choice = 2 -> NUMBERS
      [] choice = 3 -> SPECIAL

\* rand() % i: the element is never left in place
shuffle_index_sattolo(i, r) == r % i

\* rand() % (i + 1) (line 34)
shuffle_index(i, r) == r % (i + 1)

(* ---------------------------------------------------------------- *)
(* Command lines                                                      *)
(* ---------------------------------------------------------------- *)
LenArgs ==
    {ToDigits(v) : v \in ((MIN_LENGTH - 1)..MaxLenArg) \cup {MAX_LENGTH, MAX_LENGTH + 1}}
        \cup {<<"x">>, <<"-", "1">>}
CountArgs ==
    {ToDigits(v) : v \in (0..MaxCountArg) \cup {MAX_COUNT + 1}} \cup {<<"x">>}

\* what getopt(argc, argv, "l:sc:h") hands back per option: the option
\* character and optarg; "?" is any option getopt does not recognise
Options ==
    [opt : {"l"}, arg : LenArgs] \cup [opt : {"c"}, arg : CountArgs]
        \cup [opt : {"s", "h", "?"}, arg : {<<>>}]

RECURSIVE SeqsUpTo(_, _)
SeqsUpTo(S, n) ==
    IF n = 0 THEN {<<>>}
    ELSE LET shorter == SeqsUpTo(S, n - 1)
         IN shorter \cup {Append(s, x) : s \in {t \in shorter : Len(t) = n - 1}, x \in S}

CommandLines == SeqsUpTo(Options, MaxArgs)

(* ---------------------------------------------------------------- *)
(* State                                                              *)
(* ---------------------------------------------------------------- *)
VARIABLES
    mode,             \* "main": a program run; "gen": a direct call of generate_password; "shuffle": a direct call of shuffle_string
    argv,             \* the options of the command line
    optind,           \* index of the next option getopt returns
    length,           \* main's length / the length parameter
    include_special,  \* main's include_special / the parameter
    count,            \* main's count
    main_i,           \* i of main's loop (line 152)
    pc,               \* position in the code
    rnd,              \* state of the random source: the value the next rand() returns
    password,         \* the buffer: byte index -> value, defined bytes only
    pos,              \* pos of generate_password
    fill_i,           \* i of the fill loop (line 54)
    charset_choice,   \* charset_choice of the fill loop
    shuf_i,           \* i of shuffle_string
    out,              \* standard output
    err,              \* standard error
    exit_code,        \* -1 while running
    stores,           \* history: index -> the phases ("guaranteed", "fill") that stored to it in this call, in order
    touched,          \* history: every index stored to in this call
    pre,              \* history: the buffer when shuffle_string was entered
    perm,             \* history: perm[k] is the entry position of the byte now at k
    js                \* history: the values of j drawn by shuffle_string, in order

vars == <<mode, argv, optind, length, include_special, count, main_i, pc, rnd,
          password, pos, fill_i, charset_choice, shuf_i, out, err, exit_code,
          stores, touched, pre, perm, js>>

mainVars == <<argv, optind, count, main_i, out, err, exit_code>>
genVars == <<pos, fill_i, charset_choice, stores>>
shufVars == <<shuf_i, pre, perm, js>>

Empty == [k \in {} |-> NUL]

\* the libc generator behind rand(): a deterministic sequence from the seed
Lcg(r) == (r * 7 + 3) % RandMod

\* a direct call of shuffle_string draws from 0 .. ShuffleRandMax, which
\* reaches every index of the longest buffer (RAND_MAX exceeds any length)
ShuffleRandMax == IF MaxShuffleLen > RandMax THEN MaxShuffleLen ELSE RandMax

\* the values the next rand() call can return: the next value of the
\* seeded sequence in a program run, any value in a direct call
RandValues ==
    IF mode = "main" THEN {rnd}
    ELSE 0..(IF mode = "shuffle" THEN ShuffleRandMax ELSE RandMax)

\* rand() has returned: the random source moves on
Rand == rnd' = (IF mode = "main" THEN Lcg(rnd) ELSE rnd)

(* ---------------------------------------------------------------- *)
(* Initial states                                                     *)
(* ---------------------------------------------------------------- *)
\* main, lines 86-90: a program run on some command line
Init ==
    /\ mode = "main"
    /\ argv \in CommandLines
    /\ optind = 1
    /\ length = DEFAULT_LENGTH
    /\ include_special = 0
    /\ count = DEFAULT_COUNT
    /\ main_i = 0
    /\ pc = "getopt"
    /\ rnd = 0
    /\ password = Empty
    /\ pos = 0
    /\ fill_i = 0
    /\ charset_choice = 0
    /\ shuf_i = 0
    /\ out = <<>>
    /\ err = <<>>
    /\ exit_code = -1
    /\ stores = Empty
    /\ touched = {}
    /\ pre = Empty
    /\ perm = Empty
    /\ js = <<>>

\* a direct call generate_password(password, length, include_special) on a
\* fresh buffer, any policy, any state of the random source
InitGen ==
    /\ mode = "gen"
    /\ argv = <<>>
    /\ optind = 1
    /\ length \in 0..MaxGenLen
    /\ include_special \in {0, 1}
    /\ count = DEFAULT_COUNT
    /\ main_i = 0
    /\ pc = "gen_upper"
    /\ rnd = 0
    /\ password = Empty
    /\ pos = 0
    /\ fill_i = 0
    /\ charset_choice = 0
    /\ shuf_i = 0
    /\ out = <<>>
    /\ err = <<>>
    /\ exit_code = -1
    /\ stores = Empty
    /\ touched = {}
    /\ pre = Empty
    /\ perm = Empty
    /\ js = <<>>

\* the bytes of the buffers handed to a direct call of shuffle_string
ShuffleAlphabet == {UPPERCASE[1], LOWERCASE[1]}

\* a direct call shuffle_string(str, length) on any buffer of that length
InitShuffle ==
    /\ mode = "shuffle"
    /\ argv = <<>>
    /\ optind = 1
    /\ length \in 0..MaxShuffleLen
    /\ include_special = 0
    /\ count = DEFAULT_COUNT
    /\ main_i = 0
    /\ pc = "shuffle"
    /\ rnd = 0
    /\ password \in [0..(length - 1) -> ShuffleAlphabet]
    /\ pos = 0
    /\ fill_i = 0
    /\ charset_choice = 0
    /\ shuf_i = length - 1
    /\ out = <<>>
    /\ err = <<>>
    /\ exit_code = -1
    /\ stores = Empty
    /\ touched = {}
    /\ pre = password
    /\ perm = [k \in 0..(length - 1) |-> k]
    /\ js = <<>>

(* ---------------------------------------------------------------- *)
(* main: option parsing and validation (lines 93-133)                 *)
(* ---------------------------------------------------------------- *)
\* return <code> from main, after writing msg to standard error
Fail(msg) ==
    /\ err' = Append(err, msg)
    /\ exit_code' = 1
    /\ pc' = "exit"

\* an upper limit off by one
LengthError_lax(len) ==
    IF len < MIN_LENGTH THEN ERR_LEN_MIN
    ELSE IF len > MAX_LENGTH + 1 THEN ERR_LEN_MAX
    ELSE ""

\* the range test of lines 97-104
LengthError(len) ==
    IF len < MIN_LENGTH THEN ERR_LEN_MIN
    ELSE IF len > MAX_LENGTH THEN ERR_LEN_MAX
    ELSE ""

\* a lower limit of 0 for the count
CountError_zero(cnt) ==
    IF cnt < 0 THEN ERR_COUNT_MIN
    ELSE IF cnt > MAX_COUNT THEN ERR_COUNT_MAX
    ELSE ""

\* the range test of lines 111-118
CountError(cnt) ==
    IF cnt < MIN_COUNT THEN ERR_COUNT_MIN
    ELSE IF cnt > MAX_COUNT THEN ERR_COUNT_MAX
    ELSE ""

\* case 'l' (lines 95-105)
OptLength ==
    /\ pc = "getopt"
    /\ optind <= Len(argv)
    /\ argv[optind].opt = "l"
    /\ length' = Atoi(argv[optind].arg)
    /\ optind' = optind + 1
    /\ IF LengthError(length') # ""
       THEN Fail(LengthError(length'))
       ELSE UNCHANGED <<err, exit_code, pc>>
    /\ UNCHANGED <<mode, argv, include_special, count, main_i, rnd, password, out,
                   touched>>
    /\ UNCHANGED <<genVars, shufVars>>

\* case 's' (lines 106-108)
OptSpecial ==
    /\ pc = "getopt"
    /\ optind <= Len(argv)
    /\ argv[optind].opt = "s"
    /\ include_special' = 1
    /\ optind' = optind + 1
    /\ UNCHANGED <<mode, argv, length, count, main_i, pc, rnd, password, out, err,
                   exit_code, touched>>
    /\ UNCHANGED <<genVars, shufVars>>

\* case 'c' (lines 109-119)
OptCount ==
    /\ pc = "getopt"
    /\ optind <= Len(argv)
    /\ argv[optind].opt = "c"
    /\ count' = Atoi(argv[optind].arg)
    /\ optind' = optind + 1
    /\ IF CountError(count') # ""
       THEN Fail(CountError(count'))
       ELSE UNCHANGED <<err, exit_code, pc>>
    /\ UNCHANGED <<mode, argv, length, include_special, main_i, rnd, password, out,
                   touched>>
    /\ UNCHANGED <<genVars, shufVars>>

\* print_usage (lines 14-25) writes the usage text to standard output
print_usage == Append(out, [kind |-> "usage"])

\* case 'h' (lines 120-122)
OptHelp ==
    /\ pc = "getopt"
    /\ optind <= Len(argv)
    /\ argv[optind].opt = "h"
    /\ out' = print_usage
    /\ exit_code' = 0
    /\ pc' = "exit"
    /\ optind' = optind + 1
    /\ UNCHANGED <<mode, argv, length, include_special, count, main_i, rnd, password,
                   err, touched>>
    /\ UNCHANGED <<genVars, shufVars>>

\* default: (lines 123-125)
OptUnknown ==
    /\ pc = "getopt"
    /\ optind <= Len(argv)
    /\ argv[optind].opt = "?"
    /\ out' = print_usage
    /\ exit_code' = 1
    /\ pc' = "exit"
    /\ optind' = optind + 1
    /\ UNCHANGED <<mode, argv, length, include_special, count, main_i, rnd, password,
                   err, touched>>
    /\ UNCHANGED <<genVars, shufVars>>

\* getopt returns -1: the loop of line 93 ends
OptEnd ==
    /\ pc = "getopt"
    /\ optind > Len(argv)
    /\ pc' = "check"
    /\ UNCHANGED <<mode, argv, optind, length, include_special, count, main_i, rnd,
                   password, out, err, exit_code, touched>>
    /\ UNCHANGED <<genVars, shufVars>>

\* a cross-check against the limit without special characters
SpecialTooShort_three(special, len) == special # 0 /\ len < MIN_LENGTH

\* the test of line 130
SpecialTooShort(special, len) == special # 0 /\ len < MIN_SPECIAL_LENGTH

\* lines 129-133
CheckSpecial ==
    /\ pc = "check"
    /\ IF SpecialTooShort(include_special, length)
       THEN Fail(ERR_SPECIAL)
       ELSE pc' = "srand" /\ UNCHANGED <<err, exit_code>>
    /\ UNCHANGED <<mode, argv, optind, length, include_special, count, main_i, rnd,
                   password, out, touched>>
    /\ UNCHANGED <<genVars, shufVars>>

\* lines 136-138: the seed is the time of day
Srand ==
    /\ pc = "srand"
    /\ \E seed \in 0..MaxSeed : rnd' = Lcg(seed)
    /\ pc' = "header"
    /\ UNCHANGED <<mode, argv, optind, length, include_special, count, main_i,
                   password, out, err, exit_code, touched>>
    /\ UNCHANGED <<genVars, shufVars>>

\* lines 143-150
Header ==
    /\ pc = "header"
    /\ out' = Append(out, [kind |-> "header", plural |-> (count > 1),
                           length |-> length, special |-> (include_special # 0)])
    /\ main_i' = 0
    /\ pc' = "loop"
    /\ UNCHANGED <<mode, argv, optind, length, include_special, count, rnd,
                   password, err, exit_code, touched>>
    /\ UNCHANGED <<genVars, shufVars>>

\* a loop test that runs the body once more
MoreToGenerate_inclusive(i, cnt) == i <= cnt

\* the loop test of line 152
MoreToGenerate(i, cnt) == i < cnt

\* line 153: call generate_password(password, length, include_special)
CallGenerate ==
    /\ pc = "loop"
    /\ MoreToGenerate(main_i, count)
    /\ pos' = 0
    /\ stores' = Empty
    /\ touched' = {}
    /\ pc' = "gen_upper"
    /\ UNCHANGED <<mode, argv, optind, length, include_special, count, main_i, rnd,
                   password, out, err, exit_code, fill_i, charset_choice>>
    /\ UNCHANGED shufVars

\* line 154
PrintPassword ==
    /\ pc = "print"
    /\ out' = Append(out, [kind |-> "line", n |-> main_i + 1, text |-> CStr(password)])
    /\ main_i' = main_i + 1
    /\ pc' = "loop"
    /\ UNCHANGED <<mode, argv, optind, length, include_special, count, rnd,
                   password, err, exit_code, touched>>
    /\ UNCHANGED <<genVars, shufVars>>

\* line 157
ReturnSuccess ==
    /\ pc = "loop"
    /\ ~MoreToGenerate(main_i, count)
    /\ exit_code' = 0
    /\ pc' = "exit"
    /\ UNCHANGED <<mode, argv, optind, length, include_special, count, main_i, rnd,
                   password, out, err, touched>>
    /\ UNCHANGED <<genVars, shufVars>>


(* ---------------------------------------------------------------- *)
(* generate_password (lines 41-84)                                    *)
(* ---------------------------------------------------------------- *)
\* the history with one more store to index idx, made by phase
Record(st, idx, phase) ==
    [k \in (DOMAIN st) \cup {idx} |->
        IF k = idx THEN (IF idx \in DOMAIN st THEN Append(st[idx], phase) ELSE <<phase>>)
        ELSE st[k]]

\* password[pos++] = get_random_char(charset)
PlaceGuaranteed(charset, next_pc) ==
    /\ \E r \in RandValues :
          /\ Rand
          /\ password' = Put(password, pos, get_random_char(charset, r))
    /\ stores' = Record(stores, pos, "guaranteed")
    /\ touched' = touched \cup {pos}
    /\ pos' = pos + 1
    /\ pc' = next_pc
    /\ UNCHANGED <<mode, length, include_special, fill_i, charset_choice>>
    /\ UNCHANGED <<mainVars, shufVars>>

\* line 45
GenUpper == pc = "gen_upper" /\ PlaceGuaranteed(UPPERCASE, "gen_lower")

\* line 46
GenLower == pc = "gen_lower" /\ PlaceGuaranteed(LOWERCASE, "gen_digit")

\* line 47
GenDigit == pc = "gen_digit" /\ PlaceGuaranteed(NUMBERS, "gen_special")

\* a special slot placed whatever the length
SpecialSlot_always(special, len) == special # 0

\* the test of line 49
SpecialSlot(special, len) == special # 0 /\ len >= 4

\* lines 49-51, test true; then the fill loop starts at i = pos (line 54)
GenSpecial ==
    /\ pc = "gen_special"
    /\ SpecialSlot(include_special, length)
    /\ \E r \in RandValues :
          /\ Rand
          /\ password' = Put(password, pos, get_random_char(SPECIAL, r))
    /\ stores' = Record(stores, pos, "guaranteed")
    /\ touched' = touched \cup {pos}
    /\ pos' = pos + 1
    /\ fill_i' = pos'
    /\ pc' = "fill"
    /\ UNCHANGED <<mode, length, include_special, charset_choice>>
    /\ UNCHANGED <<mainVars, shufVars>>

\* line 49, test false; then the fill loop starts at i = pos (line 54)
GenNoSpecial ==
    /\ pc = "gen_special"
    /\ ~SpecialSlot(include_special, length)
    /\ fill_i' = pos
    /\ pc' = "fill"
    /\ UNCHANGED <<mode, length, include_special, rnd, password, pos, charset_choice,
                   stores, touched>>
    /\ UNCHANGED <<mainVars, shufVars>>

\* a fill loop that runs one slot too far
FillMore_inclusive(i, len) == i <= len

\* a fill loop that stops one slot early
FillMore_short(i, len) == i < len - 1

\* the loop test of line 54
FillMore(i, len) == i < len

\* lines 55-61: draw the class of slot i
FillChoice ==
    /\ pc = "fill"
    /\ FillMore(fill_i, length)
    /\ \E r \in RandValues :
          /\ Rand
          /\ charset_choice' = charset_choice_of(include_special, r)
    /\ pc' = "fill_put"
    /\ UNCHANGED <<mode, length, include_special, password, pos, fill_i, stores,
                   touched>>
    /\ UNCHANGED <<mainVars, shufVars>>

\* lines 63-76 and the i++ of line 54
FillPut ==
    /\ pc = "fill_put"
    /\ \E r \in RandValues :
          /\ Rand
          /\ password' = Put(password, fill_i, get_random_char(charset_of(charset_choice), r))
    /\ stores' = Record(stores, fill_i, "fill")
    /\ touched' = touched \cup {fill_i}
    /\ fill_i' = fill_i + 1
    /\ pc' = "fill"
    /\ UNCHANGED <<mode, length, include_special, pos, charset_choice>>
    /\ UNCHANGED <<mainVars, shufVars>>

\* line 80: the fill loop is over, call shuffle_string(password, length)
CallShuffle ==
    /\ pc = "fill"
    /\ ~FillMore(fill_i, length)
    /\ shuf_i' = length - 1
    /\ pre' = password
    /\ pc' = "shuffle"
    /\ UNCHANGED <<mode, length, include_special, rnd, password, touched, perm, js>>
    /\ UNCHANGED <<mainVars, genVars>>

(* ---------------------------------------------------------------- *)
(* shuffle_string (lines 32-39)                                       *)
(* ---------------------------------------------------------------- *)
\* the loop test of line 33
ShuffleMore(i) == i > 0

\* lines 34-37 and the i-- of line 33
ShuffleStep ==
    /\ pc = "shuffle"
    /\ ShuffleMore(shuf_i)
    /\ \E r \in RandValues :
          /\ Rand
          /\ LET j == shuffle_index(shuf_i, r)
             IN /\ password' = Swap(password, shuf_i, j)
                /\ touched' = touched \cup {shuf_i, j}
                /\ perm' = IF mode = "shuffle" THEN Swap(perm, shuf_i, j) ELSE perm
                /\ js' = IF mode = "shuffle" THEN Append(js, j) ELSE js
    /\ shuf_i' = shuf_i - 1
    /\ UNCHANGED <<mode, length, include_special, pc, pre>>
    /\ UNCHANGED <<mainVars, genVars>>

\* line 39 of a direct call: shuffle_string is over
ShuffleDone ==
    /\ pc = "shuffle"
    /\ ~ShuffleMore(shuf_i)
    /\ mode = "shuffle"
    /\ pc' = "exit"
    /\ UNCHANGED <<mode, length, include_special, rnd, password, touched>>
    /\ UNCHANGED <<mainVars, genVars, shufVars>>

\* the index of the terminator (line 83)
TerminatorIndex(len) == len

\* shuffle_string returns (line 39) to line 80, then line 83
Terminate ==
    /\ pc = "shuffle"
    /\ ~ShuffleMore(shuf_i)
    /\ mode # "shuffle"
    /\ password' = Put(password, TerminatorIndex(length), NUL)
    /\ touched' = touched \cup {TerminatorIndex(length)}
    /\ pc' = "gen_return"
    /\ UNCHANGED <<mode, length, include_special, rnd>>
    /\ UNCHANGED <<mainVars, genVars, shufVars>>

\* line 84 reached from line 153: back in main's loop
ReturnToMain ==
    /\ pc = "gen_return"
    /\ mode = "main"
    /\ pc' = "print"
    /\ UNCHANGED <<mode, length, include_special, rnd, password, touched>>
    /\ UNCHANGED <<mainVars, genVars, shufVars>>

(* ---------------------------------------------------------------- *)
(* Specifications                                                     *)
(* ---------------------------------------------------------------- *)
Generate ==
    \/ GenUpper \/ GenLower \/ GenDigit \/ GenSpecial \/ GenNoSpecial
    \/ FillChoice \/ FillPut \/ CallShuffle
    \/ ShuffleStep \/ Terminate

Next ==
    \/ OptLength \/ OptSpecial \/ OptCount \/ OptHelp \/ OptUnknown \/ OptEnd
    \/ CheckSpecial \/ Srand \/ Header \/ CallGenerate \/ PrintPassword
    \/ ReturnSuccess \/ ReturnToMain
    \/ Generate

NextGen == Generate

NextShuffle == ShuffleStep \/ ShuffleDone

\* a program run
Spec == Init /\ [][Next]_vars

\* a program run that keeps executing until main returns
FairSpec == Spec /\ WF_vars(Next)

\* direct calls of generate_password
SpecGen == InitGen /\ [][NextGen]_vars

\* direct calls of shuffle_string
SpecShuffle == InitShuffle /\ [][NextShuffle]_vars

TypeOK ==
    /\ mode \in {"main", "gen", "shuffle"}
    /\ exit_code \in {-1, 0, 1}
    /\ include_special \in {0, 1}


(* ---------------------------------------------------------------- *)
(* Vocabulary of the properties                                       *)
(* ---------------------------------------------------------------- *)
Upper == Range(UPPERCASE)
Lower == Range(LOWERCASE)
Digit == Range(NUMBERS)
Special == Range(SPECIAL)
Similar == {"0", "O", "I", "l", "1"}

ValidPolicy(len, special) ==
    /\ len \in 3..128
    /\ (special # 0 => len >= 4)

\* the guaranteed count g
Guaranteed(special) == IF special # 0 THEN 4 ELSE 3

\* the first n bytes of a buffer, as a sequence
Prefix(buf, n) == [k \in 1..n |-> buf[k - 1]]

Occurrences(s, c) == Cardinality({k \in DOMAIN s : s[k] = c})

SameChars(s, t) ==
    /\ DOMAIN s = DOMAIN t
    /\ \A c \in Range(s) \cup Range(t) : Occurrences(s, c) = Occurrences(t, c)

\* generate_password has reached line 84: the call is over
Returned == pc = "gen_return"

\* main has returned
Exited == mode = "main" /\ pc = "exit"

PasswordLines == SelectSeq(out, LAMBDA e : e.kind = "line")

Enabled(special) == Upper \cup Lower \cup Digit \cup (IF special # 0 THEN Special ELSE {})

(* ---- what the command line asks for, read off argv as a whole ---- *)
OutOfRange(o) ==
    \/ o.opt = "l" /\ Atoi(o.arg) \notin 3..128
    \/ o.opt = "c" /\ Atoi(o.arg) \notin 1..100

TerminatingEvent(o) == OutOfRange(o) \/ o.opt \in {"h", "?"}

\* index of the first option that ends the run, 0 when there is none
FirstEvent(args) ==
    LET ev == {k \in DOMAIN args : TerminatingEvent(args[k])}
    IN IF ev = {} THEN 0 ELSE CHOOSE k \in ev : \A m \in ev : k <= m

LastOf(args, o) ==
    LET ks == {k \in DOMAIN args : args[k].opt = o}
    IN IF ks = {} THEN 0 ELSE CHOOSE k \in ks : \A m \in ks : m <= k

EffectiveLength(args) ==
    IF LastOf(args, "l") = 0 THEN 12 ELSE Atoi(args[LastOf(args, "l")].arg)

EffectiveCount(args) ==
    IF LastOf(args, "c") = 0 THEN 1 ELSE Atoi(args[LastOf(args, "c")].arg)

SpecialGiven(args) == \E k \in DOMAIN args : args[k].opt = "s"

ValidationPasses(args) ==
    /\ FirstEvent(args) = 0
    /\ ~(SpecialGiven(args) /\ EffectiveLength(args) < 4)

ExpectedExit(args) ==
    IF FirstEvent(args) # 0
    THEN (IF args[FirstEvent(args)].opt = "h" THEN 0 ELSE 1)
    ELSE (IF SpecialGiven(args) /\ EffectiveLength(args) < 4 THEN 1 ELSE 0)

GenerationPcs ==
    {"gen_upper", "gen_lower", "gen_digit", "gen_special", "fill", "fill_put",
     "shuffle", "gen_return", "print"}

(* ---------------------------------------------------------------- *)
(* C1                                                                 *)
(* ---------------------------------------------------------------- *)
\* C1: when generate_password returns under a valid policy, the string in
\* the buffer has exactly `length` characters: every position 0..length-1
\* was stored to by this call and holds a character, and the terminator
\* is at index `length`.
C1_ExactLength ==
    (mode = "main" /\ Returned) =>
        /\ ValidPolicy(length, include_special)
        /\ \A k \in 0..(length - 1) :
              k \in DOMAIN stores /\ k \in DOMAIN password /\ password[k] # NUL
        /\ Get(password, length) = NUL
        /\ Len(CStr(password)) = length

\* a second call has returned on the buffer the first call left behind,
\* at the largest accepted length
C1_Witness ==
    /\ mode = "main" /\ Returned
    /\ main_i = 1
    /\ length = MAX_LENGTH

(* ---------------------------------------------------------------- *)
(* C2                                                                 *)
(* ---------------------------------------------------------------- *)
\* C2: under a valid policy, whatever the draws, the returned password
\* holds at least one Upper, one Lower, one Digit and, with
\* include_special, one Special character.
C2_Composition ==
    (mode = "gen" /\ Returned /\ ValidPolicy(length, include_special)) =>
        LET pw == Range(CStr(password))
        IN /\ pw \cap Upper # {}
           /\ pw \cap Lower # {}
           /\ pw \cap Digit # {}
           /\ (include_special # 0 => pw \cap Special # {})

\* a returned password with special characters whose shuffle moved the
\* guaranteed characters away from the front
C2_Witness ==
    /\ mode = "gen" /\ Returned
    /\ include_special = 1 /\ length = 4
    /\ password[0] \in Special
    /\ password[3] \in Upper

(* ---------------------------------------------------------------- *)
(* C3                                                                 *)
(* ---------------------------------------------------------------- *)
\* C3: every character of every generated password, in the buffer at
\* return and on every printed line, belongs to an enabled class (Special
\* only with include_special), and none is one of 0 O I l 1.
C3_EnabledClassesOnly ==
    /\ (mode = "main" /\ Returned) =>
          \A c \in Range(CStr(password)) :
              c \in Enabled(include_special) /\ c \notin Similar
    /\ mode = "main" =>
          \A k \in DOMAIN out :
              out[k].kind = "line" =>
                  \A c \in Range(out[k].text) :
                      c \in Enabled(include_special) /\ c \notin Similar

\* a long password without -s has been printed, with fill slots of all
\* three classes
C3_Witness ==
    /\ Exited /\ exit_code = 0
    /\ include_special = 0
    /\ length = DEFAULT_LENGTH
    /\ Len(PasswordLines) = 1
    /\ Cardinality({k \in 1..12 : PasswordLines[1].text[k] \in Upper}) > 1
    /\ Cardinality({k \in 1..12 : PasswordLines[1].text[k] \in Lower}) > 1
    /\ Cardinality({k \in 1..12 : PasswordLines[1].text[k] \in Digit}) > 1


(* ---------------------------------------------------------------- *)
(* C4                                                                 *)
(* ---------------------------------------------------------------- *)
\* C4: output is all-or-nothing. When main has returned, either no
\* password line was printed and the command line fails validation or asks
\* for help, or exactly `count` lines were printed, numbered 1..count in
\* order, each with a password of the effective length. No step of the
\* seeding, header or generation code runs unless the whole command line
\* passes validation, and no line is ever printed with an error pending.
C4_AllOrNothing ==
    /\ Exited =>
          \/ /\ PasswordLines = <<>>
             /\ ~ValidationPasses(argv)
          \/ /\ ValidationPasses(argv)
             /\ exit_code = 0
             /\ Len(PasswordLines) = EffectiveCount(argv)
             /\ \A k \in DOMAIN PasswordLines :
                   /\ PasswordLines[k].n = k
                   /\ Len(PasswordLines[k].text) = EffectiveLength(argv)
    /\ (mode = "main" /\ pc \in GenerationPcs \cup {"srand", "header", "loop"}) =>
          /\ ValidationPasses(argv)
          /\ optind > Len(argv)
          /\ err = <<>>
    /\ (mode = "main" /\ PasswordLines # <<>>) => ValidationPasses(argv)

\* a run that printed two passwords of four characters and returned
C4_Witness ==
    /\ Exited
    /\ Len(PasswordLines) = 2
    /\ length = 4
    /\ PasswordLines[2].n = 2

(* ---------------------------------------------------------------- *)
(* C5                                                                 *)
(* ---------------------------------------------------------------- *)
C5_ExitState ==
    Exited =>
        /\ exit_code \in {0, 1}
        /\ exit_code = ExpectedExit(argv)
        /\ (FirstEvent(argv) # 0 =>
               /\ optind = FirstEvent(argv) + 1
               /\ PasswordLines = <<>>)
        /\ (ValidationPasses(argv) =>
               /\ length = EffectiveLength(argv)
               /\ count = EffectiveCount(argv)
               /\ (include_special # 0) = SpecialGiven(argv)
               /\ Len(PasswordLines) = count
               /\ out[1] = [kind |-> "header", plural |-> (count > 1),
                            length |-> length, special |-> SpecialGiven(argv)])

\* C5: every run ends, with exit code 0 or 1, decided by the first
\* terminating event met left to right: 1 for a -l value outside [3,128], a
\* -c value outside [1,100] or an unrecognised flag, 0 for -h; with no such
\* event, 1 when the special/length check fails and otherwise 0 after all
\* passwords are printed, with length 12, count 1 and special off for the
\* options not given.
C5_ExitCode == []C5_ExitState /\ <>(pc = "exit")

\* a run on an empty command line has printed one password of the default
\* length and returned 0
C5_Witness ==
    /\ Exited
    /\ argv = <<>>
    /\ exit_code = 0
    /\ length = DEFAULT_LENGTH /\ count = DEFAULT_COUNT /\ include_special = 0
    /\ Len(PasswordLines) = 1

(* ---------------------------------------------------------------- *)
(* C6                                                                 *)
(* ---------------------------------------------------------------- *)
\* C6 as stated: whenever -s is set and the effective length is below 4,
\* the run exits with code 1 and the special-character length error, and
\* prints no password.
C6_Original ==
    (Exited /\ SpecialGiven(argv) /\ EffectiveLength(argv) < 4) =>
        /\ exit_code = 1
        /\ err = <<ERR_SPECIAL>>
        /\ PasswordLines = <<>>

\* C6 as amended: whenever -s is given and the effective length is below 4,
\* no password is printed; and when in addition every option is processed
\* without a terminating event, the run exits with code 1 and the
\* special-character length error, whatever the order of -s and -l.
C6_SpecialLength ==
    /\ (mode = "main" /\ SpecialGiven(argv) /\ EffectiveLength(argv) < 4) =>
          /\ PasswordLines = <<>>
          /\ pc \notin GenerationPcs
    /\ (Exited /\ SpecialGiven(argv) /\ EffectiveLength(argv) < 4
            /\ FirstEvent(argv) = 0) =>
          /\ exit_code = 1
          /\ err = <<ERR_SPECIAL>>
          /\ out = <<>>

\* the run of `-l 3 -s` has returned
C6_Witness ==
    /\ Exited
    /\ Len(argv) = 2
    /\ argv[1] = [opt |-> "l", arg |-> <<"3">>]
    /\ argv[2].opt = "s"
    /\ err = <<ERR_SPECIAL>>

(* ---------------------------------------------------------------- *)
(* C7                                                                 *)
(* ---------------------------------------------------------------- *)
\* C7 as stated: a call of generate_password with an invalid policy never
\* returns a password.
C7_Original ==
    (mode = "gen" /\ ~ValidPolicy(length, include_special)) => ~Returned

\* C7 as amended: generate_password has no validation and does not fail on
\* an invalid policy with length in [0,3]: it stores exactly the three
\* guaranteed characters (the special slot is skipped when length < 4),
\* draws no fill character, and returns the first `length` of them,
\* shuffled, so that with include_special and length 3 the password holds
\* no Special character.
C7_InvalidPolicyReturns ==
    (mode = "gen" /\ Returned /\ ~ValidPolicy(length, include_special)) =>
        /\ length \in 0..3
        /\ DOMAIN stores = 0..2
        /\ \A k \in 0..2 : stores[k] = <<"guaranteed">>
        /\ Len(CStr(password)) = length
        /\ SameChars(CStr(password), Prefix(pre, length))
        /\ Range(CStr(password)) \cap Special = {}

\* the call with include_special and length 3 has returned
C7_Witness ==
    /\ mode = "gen" /\ Returned
    /\ include_special = 1
    /\ length = 3


(* ---------------------------------------------------------------- *)
(* C8                                                                 *)
(* ---------------------------------------------------------------- *)
\* the values of j that line 34 can produce at index i
JValues(i) == {shuffle_index(i, r) : r \in 0..ShuffleRandMax}

\* the draw sequences of a buffer of length n: one j for i = n-1 down to 1
RECURSIVE DrawSeqs(_)
DrawSeqs(n) ==
    IF n <= 1 THEN {<<>>}
    ELSE {<<j>> \o t : j \in JValues(n - 1), t \in DrawSeqs(n - 1)}

\* shuffle_string as a function of the buffer and the draws it consumes
RECURSIVE shuffle_string(_, _, _)
shuffle_string(buf, i, draws) ==
    IF ~ShuffleMore(i) \/ draws = <<>> THEN buf
    ELSE shuffle_string(Swap(buf, i, Head(draws)), i - 1, Tail(draws))

Identity(n) == [k \in 0..(n - 1) |-> k]

RECURSIVE Factorial(_)
Factorial(n) == IF n <= 1 THEN 1 ELSE n * Factorial(n - 1)

\* C8: when shuffle_string is over, the buffer is a permutation of the
\* buffer it was given (same length, same characters with the same
\* multiplicities, each byte moved as the position permutation says), the
\* draws were one j in [0,i] for each i from length-1 down to 1, and the
\* map from draw sequences to position permutations is a bijection: no
\* other draw sequence gives the permutation reached, and the draw
\* sequences give length! permutations.
C8_ShufflePermutation ==
    (mode = "shuffle" /\ pc = "exit") =>
        /\ DOMAIN password = DOMAIN pre
        /\ SameChars(Prefix(password, length), Prefix(pre, length))
        /\ Range(perm) = 0..(length - 1)
        /\ \A k \in 0..(length - 1) : password[k] = pre[perm[k]]
        /\ Len(js) = (IF length > 0 THEN length - 1 ELSE 0)
        /\ \A m \in DOMAIN js : js[m] \in 0..(length - m)
        /\ perm = shuffle_string(Identity(length), length - 1, js)
        /\ \A other \in DrawSeqs(length) :
              shuffle_string(Identity(length), length - 1, other) = perm => other = js
        /\ Cardinality({shuffle_string(Identity(length), length - 1, d) : d \in DrawSeqs(length)})
              = Factorial(length)

\* a shuffle of four bytes that reversed the buffer
C8_Witness ==
    /\ mode = "shuffle" /\ pc = "exit"
    /\ length = 4
    /\ perm = [k \in 0..3 |-> 3 - k]
    /\ pre[0] # pre[3]

(* ---------------------------------------------------------------- *)
(* C9                                                                 *)
(* ---------------------------------------------------------------- *)
\* C9: under a valid policy, the buffer that enters the shuffle holds an
\* Upper character at 0, a Lower at 1, a Digit at 2 and, with
\* include_special, a Special at 3; the guaranteed phase stored once to
\* each of 0..g-1 and the fill phase once to each of g..length-1 and
\* nowhere else. With length = g nothing is filled and the returned
\* password is a permutation of the guaranteed characters.
C9_PhaseLayout ==
    (mode = "gen" /\ ValidPolicy(length, include_special)
        /\ pc \in {"shuffle", "gen_return"}) =>
        LET g == Guaranteed(include_special)
        IN /\ pre[0] \in Upper
           /\ pre[1] \in Lower
           /\ pre[2] \in Digit
           /\ (include_special # 0 => pre[3] \in Special)
           /\ pos = g
           /\ DOMAIN stores = 0..(length - 1)
           /\ \A k \in 0..(g - 1) : stores[k] = <<"guaranteed">>
           /\ \A k \in g..(length - 1) : stores[k] = <<"fill">>
           /\ (length = g /\ Returned) =>
                 SameChars(CStr(password), Prefix(pre, g))

\* the call with length 4 and special characters has returned: four
\* guaranteed characters, none filled, not in the order they were placed
C9_Witness ==
    /\ mode = "gen" /\ Returned
    /\ include_special = 1 /\ length = 4
    /\ DOMAIN stores = 0..3
    /\ password[0] \in Digit

(* ---------------------------------------------------------------- *)
(* C10                                                                *)
(* ---------------------------------------------------------------- *)
\* C10: in a program run, every index generate_password and shuffle_string
\* store to (guaranteed slots, fill slots, swap positions, terminator) lies
\* in 0..128, inside the 129-byte buffer, in every call on the reused
\* buffer.
C10_InBounds ==
    mode = "main" =>
        /\ touched \subseteq 0..(BUFFER_SIZE - 1)
        /\ DOMAIN password \subseteq 0..(BUFFER_SIZE - 1)
        /\ DOMAIN stores \subseteq 0..(BUFFER_SIZE - 1)
        /\ (pc \in {"fill", "fill_put"} => fill_i \in 0..(BUFFER_SIZE - 1))
        /\ (pc = "shuffle" => shuf_i < BUFFER_SIZE - 1)

\* the second call at the largest length has stored its terminator in the
\* last byte of the buffer
C10_Witness ==
    /\ mode = "main" /\ Returned
    /\ main_i = 1
    /\ (BUFFER_SIZE - 1) \in touched
    /\ 0 \in touched

====
